---------------------------- MODULE Spec2Model ----------------------------
(***************************************************************************)
(* NaN-boxing of saturn_tagging: bit_utils.rs (classification and          *)
(* extraction over raw 64-bit patterns) and type_tags.rs (TypeId,          *)
(* ThinTypeId, tag / matches / try_*_untag).                               *)
(*                                                                         *)
(* A u64, i64 or u8 is modelled by the set of positions of its one bits    *)
(* (bit 0 is the least significant), so that no value is cut to the width  *)
(* of the checker's integers:  a & b is a \cap b,  a | b is a \cup b,      *)
(* a ^ b is the symmetric difference, !a is the complement in 0..63, and   *)
(* an i64 is negative iff bit 63 is set.                                   *)
(***************************************************************************)
EXTENDS Integers, FiniteSets, Sequences

(***************************************************************************)
(* Bounds of the sampled inputs.                                           *)
(***************************************************************************)
\* payload bits 0..PayloadLowBits-1 and bit 47 vary in the sampled words
PayloadLowBits == 1

(***************************************************************************)
(* Machine arithmetic on bit sets.                                         *)
(***************************************************************************)
U64 == 0..63
U8 == 0..7

\* the bit set of a small literal (n < 2^31)
Bits(n) == {i \in 0..30 : (n \div (2^i)) % 2 = 1}

And(a, b) == a \cap b
Or(a, b) == a \cup b
Xor(a, b) == (a \ b) \cup (b \ a)
Not(a) == U64 \ a
\* a << k and a >> k on u64 (bits shifted out are lost)
Shl(a, k) == {i + k : i \in {j \in a : j + k <= 63}}
Shr(a, k) == {i - k : i \in {j \in a : j >= k}}
\* `as u8`: keep the low eight bits
AsU8(a) == a \cap U8
\* unsigned a <= b
SetMax(s) == CHOOSE m \in s : \A x \in s : x <= m
ULe(a, b) == a = b \/ SetMax(Xor(a, b)) \in b
\* (n as i64) < 0
INeg(n) == 63 \in n

\* the literals 0xf (0x0f) and 0xf0 of the source
X0F == Bits(15)
XF0 == Bits(240)

(***************************************************************************)
(* bit_utils.rs: masks.                                                    *)
(***************************************************************************)
TAG_SHIFT == 48
NAN_MASK == Shl(Bits(2047), 52)
TAG_MASK == Shl(Bits(15), 48)
RESERVED_BITS_MASK == Xor(NAN_MASK, TAG_MASK)
SIGN_MASK == Shl(Bits(1), 63)
RESERVED_BITS_AND_SIGN == Or(RESERVED_BITS_MASK, SIGN_MASK)

\* core::f64::NAN.to_bits() = 0x7ff8_0000_0000_0000
F64_NAN_BITS == Shl(Bits(4095), 51)
\* core::f64::INFINITY.to_bits() = 0x7ff0_0000_0000_0000, NEG_INFINITY its negation
F64_INFINITY_BITS == Shl(Bits(2047), 52)
\* f64::from_bits(n).is_infinite(): n is the pattern of +Infinity or -Infinity
F64_NEG_INFINITY_BITS == Or(F64_INFINITY_BITS, Shl(Bits(1), 63))
f64_is_infinite(n) == n = F64_INFINITY_BITS \/ n = F64_NEG_INFINITY_BITS

(***************************************************************************)
(* bit_utils.rs: predicates and transforms.                                *)
(***************************************************************************)
reserved_bits_clean(n) ==
    LET masked == And(n, RESERVED_BITS_AND_SIGN)
    IN  masked = {} \/ masked = RESERVED_BITS_AND_SIGN

\* the condition of the debug_assert! in assert_is_clean
assert_is_clean(n) == reserved_bits_clean(n)

is_a_nan(n) == And(n, NAN_MASK) = NAN_MASK

is_the_nan_or_ifty_unsigned(n) ==
    f64_is_infinite(n) \/ n = F64_NAN_BITS

is_the_nan_or_ifty_no_nan(n) ==
    f64_is_infinite(n)

is_the_nan_or_ifty(n) ==
    f64_is_infinite(n) \/ And(n, Not(SIGN_MASK)) = F64_NAN_BITS

is_nanbox(n) == is_a_nan(n) /\ ~is_the_nan_or_ifty(n)

tag_of_wide_mask(n) == AsU8(Shr(And(n, Or(TAG_MASK, NAN_MASK)), TAG_SHIFT))

tag_of(n) == And(AsU8(Shr(And(n, TAG_MASK), TAG_SHIFT)), X0F)

signed_untag_nan_mask(n) ==
    IF INeg(n) THEN Or(n, NAN_MASK) ELSE And(n, Not(RESERVED_BITS_MASK))

signed_untag_always_clear(n) ==
    And(n, Not(RESERVED_BITS_MASK))

signed_untag(n) ==
    IF INeg(n) THEN Or(n, RESERVED_BITS_MASK) ELSE And(n, Not(RESERVED_BITS_MASK))

unsigned_untag_tag_mask(n) == And(n, Not(Or(TAG_MASK, SIGN_MASK)))

unsigned_untag(n) == And(n, Not(Or(RESERVED_BITS_MASK, SIGN_MASK)))

nan_tag(n) == Or(n, NAN_MASK)

(***************************************************************************)
(* type_tags.rs.  A TypeId is a u64, a ThinTypeId a u8.  A Result is a     *)
(* record:  ok says Ok or Err, val is the Ok value, id the field of        *)
(* TypeIdTooLargeError, expected / found the fields of TypeError.  arg     *)
(* notes the argument of a conversion; the fields a result does not use    *)
(* are zero.                                                               *)
(***************************************************************************)
NoResult == [op |-> "none", ok |-> TRUE, val |-> {}, id |-> {},
             expected |-> {}, found |-> {}, arg |-> {}]

Ok(o, v) == [NoResult EXCEPT !.op = o, !.val = v]
TypeIdTooLargeError(v) == [NoResult EXCEPT !.ok = FALSE, !.id = v]
TypeError(e, f) == [NoResult EXCEPT !.ok = FALSE, !.expected = e, !.found = f]

\* impl TryFrom<TypeId> for ThinTypeId
XFF == Bits(255)

try_from_byte_range(id) ==
    IF ULe(id, XFF)
    THEN [Ok("try_from", AsU8(id)) EXCEPT !.arg = id]
    ELSE [TypeIdTooLargeError(id) EXCEPT !.op = "try_from", !.arg = id]

try_from(id) ==
    IF ULe(id, X0F)
    THEN [Ok("try_from", AsU8(id)) EXCEPT !.arg = id]
    ELSE [TypeIdTooLargeError(id) EXCEPT !.op = "try_from", !.arg = id]

\* impl From<ThinTypeId> for TypeId
from(thin) == thin

\* the condition of the debug_assert! in ThinTypeId::assert_size
assert_size(self) == And(self, XF0) = {}

shift_for_tagging(self) == Shl(self, TAG_SHIFT)

matches_any_tag(self, n) == is_nanbox(n)

matches_inverted(self, n) == is_nanbox(n) /\ tag_of(n) # self

matches(self, n) == is_nanbox(n) /\ tag_of(n) = self

tag_keep_region(self, to_tag) ==
    Or(nan_tag(to_tag), shift_for_tagging(self))

tag(self, to_tag) ==
    Or(And(nan_tag(to_tag), Not(TAG_MASK)), shift_for_tagging(self))

try_unsigned_untag(self, to_untag) ==
    IF matches(self, to_untag)
    THEN Ok("try_unsigned_untag", unsigned_untag(to_untag))
    ELSE [TypeError(from(self), from(tag_of(to_untag)))
             EXCEPT !.op = "try_unsigned_untag"]

try_signed_untag(self, to_untag) ==
    IF matches(self, to_untag)
    THEN Ok("try_signed_untag", signed_untag(to_untag))
    ELSE [TypeError(from(self), from(tag_of(to_untag)))
             EXCEPT !.op = "try_signed_untag"]

(***************************************************************************)
(* Sampled inputs.                                                         *)
(***************************************************************************)
PayloadBits == (0..(PayloadLowBits - 1)) \cup {47}

\* exponent fields: zero, all ones, all ones but the lowest / the highest bit
ExponentSamples == {{}, 52..62, 53..62, 52..61}

\* words handed to the decoding side: floats and nanboxes alike
WordSamples ==
    {s \cup e \cup t \cup p : s \in SUBSET {63}, e \in ExponentSamples,
                              t \in SUBSET (48..51), p \in SUBSET PayloadBits}

\* payloads handed to tag: clean ones of either sign, and unclean ones
PayloadSamples ==
    {h \cup p : h \in {{}, 48..63, {63}}, p \in SUBSET PayloadBits}

\* wide identifiers: 0..16, 0x102, 0xffff, 2^63
TypeIdSamples == {Bits(v) : v \in 0..16} \cup {Bits(258), Bits(65535), {63}}

(***************************************************************************)
(* A caller's session.  An absent value is the empty set, a present value  *)
(* x the set {x}.                                                          *)
(***************************************************************************)
VARIABLES
    self_,      \* the ThinTypeId the caller holds
    to_tag,     \* the payload the caller owns
    to_untag,   \* the word the caller holds
    tagger,     \* the ThinTypeId that produced to_untag by tag
    res         \* the result of the last call

vars == <<self_, to_tag, to_untag, tagger, res>>

None == {}
Some(x) == {x}
The(o) == CHOOSE x \in o : TRUE

Panicked == res.op \in {"assert_is_clean", "assert_size"}

\* the caller either owns a payload to encode or received a word to decode
Init ==
    /\ self_ = None
    /\ tagger = None
    /\ res = NoResult
    /\ \/ to_tag \in {Some(p) : p \in PayloadSamples} /\ to_untag = None
       \/ to_untag \in {Some(w) : w \in WordSamples} /\ to_tag = None

\* ThinTypeId::try_from(TypeId(id))
Narrow(id) ==
    /\ ~Panicked
    /\ res' = try_from(id)
    /\ self_' = IF res'.ok THEN Some(res'.val) ELSE self_
    /\ UNCHANGED <<to_tag, to_untag, tagger>>

\* TypeId::from(self)
Widen ==
    /\ ~Panicked
    /\ self_ # None
    /\ res' = Ok("from", from(The(self_)))
    /\ UNCHANGED <<self_, to_tag, to_untag, tagger>>

\* self.tag(to_tag).  A debug_assert! whose condition is false halts a build
\* with debug assertions and is skipped by a build without them: debug is the
\* kind of build that runs the call.
Tag ==
    /\ ~Panicked
    /\ self_ # None
    /\ to_tag # None
    /\ \E debug \in BOOLEAN :
        IF debug /\ ~assert_is_clean(The(to_tag))
        THEN /\ res' = [NoResult EXCEPT !.op = "assert_is_clean", !.ok = FALSE]
             /\ UNCHANGED <<to_untag, tagger>>
        ELSE IF debug /\ ~assert_size(The(self_))
        THEN /\ res' = [NoResult EXCEPT !.op = "assert_size", !.ok = FALSE]
             /\ UNCHANGED <<to_untag, tagger>>
        ELSE /\ to_untag' = Some(tag(The(self_), The(to_tag)))
             /\ tagger' = self_
             /\ res' = Ok("tag", tag(The(self_), The(to_tag)))
    /\ UNCHANGED <<self_, to_tag>>

\* self.matches(to_untag)
Matches ==
    /\ ~Panicked
    /\ self_ # None
    /\ to_untag # None
    /\ res' = [NoResult EXCEPT !.op = "matches",
                               !.ok = matches(The(self_), The(to_untag))]
    /\ UNCHANGED <<self_, to_tag, to_untag, tagger>>

\* self.try_unsigned_untag(to_untag)
TryUnsignedUntag ==
    /\ ~Panicked
    /\ self_ # None
    /\ to_untag # None
    /\ res' = try_unsigned_untag(The(self_), The(to_untag))
    /\ UNCHANGED <<self_, to_tag, to_untag, tagger>>

\* self.try_signed_untag(to_untag)
TrySignedUntag ==
    /\ ~Panicked
    /\ self_ # None
    /\ to_untag # None
    /\ res' = try_signed_untag(The(self_), The(to_untag))
    /\ UNCHANGED <<self_, to_tag, to_untag, tagger>>

\* bit_utils::is_nanbox(to_untag)
IsNanbox ==
    /\ ~Panicked
    /\ to_untag # None
    /\ res' = [NoResult EXCEPT !.op = "is_nanbox", !.ok = is_nanbox(The(to_untag))]
    /\ UNCHANGED <<self_, to_tag, to_untag, tagger>>

Next ==
    \/ \E id \in TypeIdSamples : Narrow(id)
    \/ Widen
    \/ Tag
    \/ Matches
    \/ TryUnsignedUntag
    \/ TrySignedUntag
    \/ IsNanbox

Spec == Init /\ [][Next]_vars

TypeOK ==
    /\ self_ \subseteq SUBSET U8 /\ Cardinality(self_) <= 1
    /\ to_tag \subseteq SUBSET U64 /\ Cardinality(to_tag) <= 1
    /\ to_untag \subseteq SUBSET U64 /\ Cardinality(to_untag) <= 1
    /\ tagger \subseteq SUBSET U8 /\ Cardinality(tagger) <= 1
    /\ res.val \subseteq U64

(***************************************************************************)
(* Vocabulary of the properties, stated on bit positions and independent   *)
(* of the masks above.                                                     *)
(***************************************************************************)
ThinOf(v) == Bits(v)
\* bits 48-63 all zero: a non-negative payload of 48 bits
NonNegative48(p) == p \subseteq 0..47
\* bits 48-63 all equal to the sign bit
SignExtended48(p) == p \cap (48..63) = {} \/ (48..63) \subseteq p
LowBits48(p) == p \cap (0..47)
ExponentAllOnes(w) == (52..62) \subseteq w
TagNibble(w) == {i - 48 : i \in w \cap (48..51)}
PosInfinity == 52..62
NegInfinity == 52..63
QuietNaN == 51..62
NegQuietNaN == 51..63
SpecialFloats == {PosInfinity, NegInfinity, QuietNaN, NegQuietNaN}
\* the last call decoded, with the identifier t that produced the word, the
\* word tag made of a payload
DecodedOwnTag(o) ==
    /\ res.op = o
    /\ to_tag # None
    /\ tagger # None
    /\ tagger = self_
\* tagging p with t gives the pattern of an infinity or of the canonical NaN
Collides(t, p) == LowBits48(p) = {} /\ t \in {ThinOf(0), ThinOf(8)}

C3_MismatchDetection ==
    (/\ res.op = "try_unsigned_untag"
     /\ to_tag # None /\ tagger # None /\ tagger # self_
     /\ SignExtended48(The(to_tag)))
        => (/\ ~res.ok
            /\ res.expected = The(self_)
            /\ res.found = The(tagger))

C3_Witness ==
    /\ res.op = "try_unsigned_untag"
    /\ tagger = Some(ThinOf(10)) /\ self_ = Some(ThinOf(12))
    /\ to_tag = Some({0})
    /\ ~res.ok /\ res.expected = ThinOf(12) /\ res.found = ThinOf(10)

\* C4: narrowing TypeId(v) succeeds iff v <= 15, then yields ThinTypeId(v);
\* for v > 15 it fails with the overflow error carrying id = TypeId(v).
C4_NarrowingTotality ==
    res.op = "try_from"
        => (/\ res.ok <=> res.arg \subseteq 0..3
            /\ res.ok => (res.val = res.arg /\ self_ = Some(res.arg))
            /\ ~res.ok => res.id = res.arg)

C4_Witness ==
    /\ res.op = "try_from"
    /\ res.arg = Bits(65535)
    /\ ~res.ok /\ res.id = Bits(65535)

\* C5: among the words whose exponent field is all ones, is_nanbox is false
\* for exactly +Infinity, -Infinity, the canonical quiet NaN and the canonical
\* quiet NaN with the sign bit set; it is false for every word whose exponent
\* field is not all ones.
C5_Exclusion ==
    (res.op = "is_nanbox" /\ to_untag # None)
        => (res.ok <=> (/\ ExponentAllOnes(The(to_untag))
                        /\ The(to_untag) \notin SpecialFloats))

C5_Witness ==
    /\ res.op = "is_nanbox"
    /\ to_untag = Some(NegQuietNaN)
    /\ ~res.ok

C7_Layout ==
    (res.op = "tag" /\ SignExtended48(The(to_tag)))
        => (/\ TagNibble(res.val) = The(self_)
            /\ ExponentAllOnes(res.val)
            /\ res.val \cap ({63} \cup (0..47)) = The(to_tag) \cap ({63} \cup (0..47))
            /\ to_untag = Some(res.val))

C7_Witness ==
    /\ res.op = "tag"
    /\ self_ = Some(ThinOf(10))
    /\ to_tag = Some((48..63) \cup {47})
    /\ res.val = {47} \cup {49, 51} \cup (52..63)

\* C8 as stated: whenever t.try_unsigned_untag(w) or t.try_signed_untag(w)
\* is an error, t differs from the tag nibble of w and found # expected.
C8_ErrorOnlyOnTagMismatch ==
    (res.op \in {"try_unsigned_untag", "try_signed_untag"} /\ ~res.ok)
        => (/\ The(self_) # TagNibble(The(to_untag))
            /\ res.found # res.expected)

\* C8 amended: whenever t.try_unsigned_untag(w) or t.try_signed_untag(w) is
\* an error, either t differs from the tag nibble of w or w is not a nanbox
\* (its exponent field is not all ones, or it is one of +-Infinity and the
\* +-canonical NaN); found differs from expected iff t differs from the nibble.
C8_ErrorOnMismatchOrFloat ==
    (res.op \in {"try_unsigned_untag", "try_signed_untag"} /\ ~res.ok)
        => (/\ \/ The(self_) # TagNibble(The(to_untag))
               \/ ~ExponentAllOnes(The(to_untag))
               \/ The(to_untag) \in SpecialFloats
            /\ res.found # res.expected <=> The(self_) # TagNibble(The(to_untag)))

C8_Witness ==
    /\ res.op = "try_signed_untag"
    /\ ~res.ok
    /\ to_untag = Some(PosInfinity)
    /\ self_ = Some(ThinOf(0))
    /\ res.found = res.expected

\* C9: every ThinTypeId produced (by a successful narrowing, or built from a
\* word's tag nibble for the found field of a TypeError) is in 0..15, so the
\* size assertion reached from tag never fails.
C9_ThinRange ==
    /\ \A t \in self_ \cup tagger : t \subseteq 0..3
    /\ res.found \subseteq 0..3
    /\ res.op # "assert_size"

C9_Witness ==
    /\ res.op = "try_unsigned_untag" /\ ~res.ok
    /\ res.found = ThinOf(15)
    /\ tagger = Some(ThinOf(15))
    /\ self_ = Some(ThinOf(3))

\* C10: for every tag t and every word w with t.matches(w), the value v of
\* t.try_signed_untag(w) is clean and t.tag(v as u64) = w.
C10_ReverseRoundTrip ==
    (res.op = "try_signed_untag" /\ res.ok)
        => (/\ SignExtended48(res.val)
            /\ tag(The(self_), res.val) = The(to_untag))

C10_Witness ==
    /\ res.op = "try_signed_untag" /\ res.ok
    /\ tagger = None
    /\ to_untag = Some((51..63) \cup {0})
    /\ res.val = (48..63) \cup {0}


=============================================================================
